---- MODULE Spec2Model ----
(***************************************************************************)
(* check_mobileprovisions.py: walk the working directory, decode every     *)
(* .mobileprovision file (standalone, or embedded in an .ipa archive and   *)
(* extracted into temp_extracted) with `security cms -D`, and print        *)
(* whether it is expired.                                                  *)
(*                                                                         *)
(* A file name is the sequence of its tokens ("a.mobileprovision" is       *)
(* <<"a", ".mobileprovision">>), so that str.endswith and the f-strings    *)
(* that append ".plist" and "_<n>" are computed on the name.  A path is    *)
(* the sequence of its components below the working directory: "./x" and   *)
(* "x" are the same path.  The file system is a function from the paths    *)
(* that exist to what is there.                                            *)
(***************************************************************************)
EXTENDS Integers, Sequences, FiniteSets, TLC

\* Instants are whole hours, 0..MaxInstant, in UTC.
MaxInstant == 2
\* The instant at which the process starts.
NowInstant == 1
\* Hours the local wall clock is ahead of UTC on the machine of the run.
UTCOffsets == {-1, 0, 1}

VARIABLES
  fs,               \* the file system below the working directory
  fs0,              \* the file system before the run (history)
  toolPresent,      \* whether the `security` executable can be launched
  CURRENT_DATE,     \* line 13: the local wall-clock reading at start-up
  pc,               \* where main() is
  stack,            \* os.walk: the directories still to scan
  files,            \* os.walk: the files of the current directory not yet seen
  ipa_path,         \* process_directory: the archive being handled
  extracted_paths,  \* process_directory: extracted paths not yet checked
  out,              \* the lines printed so far
  calls,            \* every check_expiry call so far (history)
  extractions       \* every extract_mobileprovision_from_ipa call (history)

vars == <<fs, fs0, toolPresent, CURRENT_DATE, pc, stack, files, ipa_path,
          extracted_paths, out, calls, extractions>>

----------------------------------------------------------------------------
\* Names and paths

MOBILEPROVISION == <<".mobileprovision">>
IPA == <<".ipa">>
EMBEDDED == <<"embedded", ".mobileprovision">>

\* str.endswith on a name
EndsWith(name, suffix) ==
  /\ Len(name) >= Len(suffix)
  /\ SubSeq(name, Len(name) - Len(suffix) + 1, Len(name)) = suffix

\* the working directory, "."
ROOT_DIR == <<>>
TEMP_DIR == << <<"temp_extracted">> >>

\* os.path.join(dir, name) and os.path.basename(path)
Join(dir, name) == Append(dir, name)
Basename(path) == path[Len(path)]
Dirname(path) == SubSeq(path, 1, Len(path) - 1)

\* f"_{n}"
IdxTok(n) == <<"_0", "_1", "_2", "_3">>[n + 1]

\* f"{file_path}.plist"
PlistPath(file_path) ==
  Join(Dirname(file_path), Append(Basename(file_path), ".plist"))

Perms(S) ==
  {s \in [1..Cardinality(S) -> S] : \A i, j \in DOMAIN s : i # j => s[i] # s[j]}

----------------------------------------------------------------------------
\* The file system

\* What a file holds: doc says what the decode utility and the property-list
\* parser make of it ("zip" and "notzip" for an .ipa file), e is the expiration
\* instant of a "date" document, members the member list of a zip container.
Data(doc, e, members) == [doc |-> doc, e |-> e, members |-> members]
NoData == Data("none", 0, <<>>)
USER == <<>>
SECURITY == << <<"security">> >>

DirEntry == [kind |-> "dir", data |-> NoData, by |-> USER]
FileEntry(data, by) == [kind |-> "file", data |-> data, by |-> by]

Exists(f, p) == p = ROOT_DIR \/ p \in DOMAIN f
IsDir(f, p) == p = ROOT_DIR \/ (p \in DOMAIN f /\ f[p].kind = "dir")
IsFile(f, p) == p \in DOMAIN f /\ f[p].kind = "file"

IsPrefix(d, p) == Len(p) >= Len(d) /\ SubSeq(p, 1, Len(d)) = d
Under(f, d) == {p \in DOMAIN f : Len(p) > Len(d) /\ IsPrefix(d, p)}
Children(f, d) == {p \in DOMAIN f : Len(p) = Len(d) + 1 /\ IsPrefix(d, p)}
Ancestors(p) == {SubSeq(p, 1, k) : k \in 1..(Len(p) - 1)}

Put(f, p, entry) == [q \in DOMAIN f \cup {p} |-> IF q = p THEN entry ELSE f[q]]
Without(f, S) == [q \in DOMAIN f \ S |-> f[q]]

\* shutil.rmtree(d)
Rmtree(f, d) == Without(f, {d} \cup Under(f, d))
\* os.makedirs(d), every ancestor being a directory or absent
MakeDirs(f, d) ==
  [q \in DOMAIN f \cup Ancestors(d) \cup {d} |->
     IF q \in DOMAIN f THEN f[q] ELSE DirEntry]

----------------------------------------------------------------------------
\* Exceptions: every class below derives from Exception.

ExceptionClasses ==
  {"CalledProcessError", "FileNotFoundError", "OSError", "BadZipFile",
   "shutil.Error", "InvalidFileException", "TypeError"}

\* line 25: except subprocess.CalledProcessError
CaughtByDecode(exc) == exc = "CalledProcessError"
\* line 53: except Exception
CaughtByCheck(exc) == exc \in ExceptionClasses
\* the handler of line 78 narrowed to the container's own error
CaughtOnlyBadZipFile(exc) == exc = "BadZipFile"
\* line 78: except Exception
CaughtByExtract(exc) == exc \in ExceptionClasses

Line(path, msg, e) == [path |-> path, msg |-> msg, e |-> e]

----------------------------------------------------------------------------
\* decode_mobileprovision and check_expiry

PartialOutput == Data("partial", 0, <<>>)

\* The external utility, `security cms -D -i input -o output`: exit status 0 with
\* the decoded document written to output, or non-zero; a run that fails may
\* (wrote) or may not have created the output file before it exits.
SecurityCms(f, input, output, wrote) ==
  IF IsFile(f, input) /\ f[input].data.doc # "reject" /\ ~IsDir(f, output)
  THEN [rc |-> 0, fs |-> Put(f, output, FileEntry(f[input].data, SECURITY))]
  ELSE [rc |-> 1,
        fs |-> IF wrote /\ ~IsDir(f, output)
               THEN Put(f, output, FileEntry(PartialOutput, SECURITY))
               ELSE f]

\* subprocess.run(..., check=True): FileNotFoundError when the executable cannot
\* be launched, CalledProcessError on a non-zero exit status.
SubprocessRun(f, tool, input, output, wrote) ==
  IF ~tool THEN [exc |-> "FileNotFoundError", fs |-> f]
  ELSE LET r == SecurityCms(f, input, output, wrote)
       IN  [exc |-> IF r.rc = 0 THEN "none" ELSE "CalledProcessError", fs |-> r.fs]

\* ret: "True", "False", or "raise" when the exception is not caught.
decode_mobileprovision(f, tool, file_path, output_path, wrote) ==
  LET r == SubprocessRun(f, tool, file_path, output_path, wrote)
  IN  IF r.exc = "none" THEN [ret |-> "True", fs |-> r.fs, lines |-> <<>>]
      ELSE IF CaughtByDecode(r.exc)
      THEN [ret |-> "False", fs |-> r.fs,
            lines |-> <<Line(file_path, "Error decoding", -1)>>]
      ELSE [ret |-> "raise", fs |-> r.fs, lines |-> <<>>]

\* plistlib.load: raises on a document that is no property list.
PlistLoadRaises(data) == data.doc \in {"malformed", "partial", "none"}
\* `not expiration_date`: the key is absent (None) or its value is falsy.
NoExpirationDate(data) == data.doc \in {"nokey", "falsy"}

\* line 49: expiration_date < CURRENT_DATE
IsExpired(expiration_date, current_date) == expiration_date < current_date

\* lines 39-54: the verdict line of a decoded document.
ParseAndReport(f, now, file_path, temp_plist) ==
  LET exc == IF ~IsFile(f, temp_plist) THEN "FileNotFoundError"
             ELSE IF PlistLoadRaises(f[temp_plist].data) THEN "InvalidFileException"
             ELSE IF NoExpirationDate(f[temp_plist].data) THEN "none"
             ELSE IF f[temp_plist].data.doc # "date" THEN "TypeError"
             ELSE "none"
      data == f[temp_plist].data
  IN  IF exc # "none"
      THEN [exc |-> exc, msg |-> "Error processing", e |-> -1]
      ELSE IF NoExpirationDate(data)
      THEN [exc |-> exc, msg |-> "No expiration date found", e |-> -1]
      ELSE [exc |-> exc,
            msg |-> IF IsExpired(data.e, now) THEN "EXPIRED" ELSE "VALID",
            e |-> data.e]

\* a cleanup that removes the checked file together with its decoded document
CleanupWithInput(f, temp_plist) ==
  Without(f, {temp_plist,
              Join(Dirname(temp_plist),
                   SubSeq(Basename(temp_plist), 1, Len(Basename(temp_plist)) - 1))})
\* lines 56-59: finally
Cleanup(f, temp_plist) ==
  IF Exists(f, temp_plist) THEN Without(f, {temp_plist}) ELSE f

\* result: the verdict printed, or "raise" when an exception leaves the function.
check_expiry(f, tool, now, file_path, wrote) ==
  LET temp_plist == PlistPath(file_path)
      dec == decode_mobileprovision(f, tool, file_path, temp_plist, wrote)
  IN  IF dec.ret = "raise"
      THEN [fs |-> dec.fs, lines |-> dec.lines, result |-> "raise", e |-> -1]
      ELSE IF dec.ret = "False"
      THEN [fs |-> dec.fs,
            lines |-> dec.lines \o <<Line(file_path, "Failed to decode", -1)>>,
            result |-> "Failed to decode", e |-> -1]
      ELSE LET v == ParseAndReport(dec.fs, now, file_path, temp_plist)
           IN  IF v.exc = "none" \/ CaughtByCheck(v.exc)
               THEN [fs |-> Cleanup(dec.fs, temp_plist),
                     lines |-> <<Line(file_path, v.msg, v.e)>>,
                     result |-> v.msg, e |-> v.e]
               ELSE [fs |-> Cleanup(dec.fs, temp_plist), lines |-> <<>>,
                     result |-> "raise", e |-> -1]

----------------------------------------------------------------------------
\* extract_mobileprovision_from_ipa

\* ZipFile.extract(member, path): create the member's parent directories below
\* path, then write the member there; the CRC is checked once the data has been
\* written, so a member with a bad CRC leaves its file behind and raises.
ZipExtract(f, m, path, by) ==
  LET target == path \o m.name
  IN  IF \E a \in Ancestors(target) : IsFile(f, a) THEN [fs |-> f, exc |-> "OSError"]
      ELSE IF IsDir(f, target) THEN [fs |-> f, exc |-> "OSError"]
      ELSE [fs |-> Put(MakeDirs(f, Dirname(target)), target, FileEntry(m.data, by)),
            exc |-> IF m.crcOk THEN "none" ELSE "BadZipFile"]

\* os.rename(src, dst) of a file onto a path that is absent or a file
Rename(f, src, dst) == Put(Without(f, {src}), dst, f[src])

\* shutil.move(src, dst): into dst when dst is a directory, and then an error if
\* the name is taken there; otherwise a rename, which replaces a file at dst.
ShutilMove(f, src, dst) ==
  IF IsDir(f, dst)
  THEN LET real_dst == Join(dst, Basename(src))
       IN  IF Exists(f, real_dst) THEN [fs |-> f, exc |-> "shutil.Error"]
           ELSE [fs |-> Rename(f, src, real_dst), exc |-> "none"]
  ELSE [fs |-> Rename(f, src, dst), exc |-> "none"]

\* line 68: file.endswith("embedded.mobileprovision")
IsEmbedded(m) == EndsWith(Basename(m.name), EMBEDDED)

\* line 70
ExtractPath(file, extracted) ==
  Join(TEMP_DIR, Append(Basename(file), IdxTok(Len(extracted))))

\* A file some other archive's extraction left at p.
OthersFile(f, p, by) == IsFile(f, p) /\ f[p].by \notin {USER, SECURITY, by}

\* lines 67-74, from member i on.  st: the file system, extracted_paths, the
\* exception raised if any, and (history) the paths written while a file that
\* another archive's extraction left was there.
RECURSIVE ExtractLoop(_, _, _, _)
ExtractLoop(members, by, i, st) ==
  IF i > Len(members) \/ st.exc # "none" THEN st
  ELSE IF ~IsEmbedded(members[i])
  THEN ExtractLoop(members, by, i + 1, st)
  ELSE LET file == members[i].name
           extract_path == ExtractPath(file, st.paths)
           ex == ZipExtract(st.fs, members[i], TEMP_DIR, by)
           mv == IF ex.exc = "none"
                 THEN ShutilMove(ex.fs, TEMP_DIR \o file, extract_path)
                 ELSE ex
           hit == {p \in {TEMP_DIR \o file} :
                          ex.exc \in {"none", "BadZipFile"} /\ OthersFile(st.fs, p, by)}
                  \cup {p \in {extract_path} :
                          ex.exc = "none" /\ OthersFile(ex.fs, p, by)}
       IN  ExtractLoop(members, by, i + 1,
             [fs |-> mv.fs,
              paths |-> IF mv.exc = "none" THEN Append(st.paths, extract_path)
                        ELSE st.paths,
              exc |-> mv.exc,
              clobbered |-> st.clobbered \cup hit])

\* zipfile.ZipFile(ipa_path, 'r')
ZipOpen(f, path) ==
  IF IsFile(f, path) /\ f[path].data.doc = "zip"
  THEN [exc |-> "none", members |-> f[path].data.members]
  ELSE [exc |-> "BadZipFile", members |-> <<>>]

\* ret: extracted_paths; raised: an exception leaves the function.
extract_mobileprovision_from_ipa(f, path) ==
  LET z == ZipOpen(f, path)
      st == IF z.exc # "none"
            THEN [fs |-> f, paths |-> <<>>, exc |-> z.exc, clobbered |-> {}]
            ELSE ExtractLoop(z.members, path, 1,
                   [fs |-> f, paths |-> <<>>, exc |-> "none", clobbered |-> {}])
  IN  IF st.exc = "none"
      THEN [fs |-> st.fs, ret |-> st.paths, exc |-> "none", raised |-> FALSE,
            partial |-> <<>>, clobbered |-> st.clobbered,
            lines |-> IF st.paths = <<>>
                      THEN <<Line(path, "No embedded.mobileprovision found", -1)>>
                      ELSE <<>>]
      ELSE IF CaughtByExtract(st.exc)
      THEN [fs |-> st.fs, ret |-> <<>>, exc |-> st.exc, raised |-> FALSE,
            partial |-> st.paths, clobbered |-> st.clobbered,
            lines |-> <<Line(path, "Error extracting", -1)>>]
      ELSE [fs |-> st.fs, ret |-> <<>>, exc |-> st.exc, raised |-> TRUE,
            partial |-> st.paths, clobbered |-> st.clobbered, lines |-> <<>>]

----------------------------------------------------------------------------
\* The trees the run starts on

Profile(doc, e) == Data(doc, e, <<>>)
Profiles ==
  {Profile(d, 0) : d \in {"reject", "malformed", "nokey", "falsy", "nondate"}}
  \cup {Profile("date", e) : e \in 0..MaxInstant}

Member(name, data, crcOk) == [name |-> name, data |-> data, crcOk |-> crcOk]
Zip(members) == Data("zip", 0, members)

InfoPlist == << <<"Payload">>, <<"Info", ".plist">> >>
AppProfile == << <<"Payload">>, EMBEDDED >>
PlugInProfile == << <<"Payload">>, <<"PlugIns">>, EMBEDDED >>
\* a member below a directory that has the name of an extracted path
Below(n) == << Append(EMBEDDED, IdxTok(n)), EMBEDDED >>

Old == Profile("date", 0)
New == Profile("date", MaxInstant)
Other == Member(InfoPlist, NoData, TRUE)

Archives ==
  { Data("notzip", 0, <<>>),
    Zip(<<Other>>),
    Zip(<<Other, Member(AppProfile, Old, TRUE)>>),
    Zip(<<Member(AppProfile, New, TRUE)>>),
    Zip(<<Member(AppProfile, Old, TRUE), Other, Member(PlugInProfile, New, TRUE)>>),
    Zip(<<Member(AppProfile, New, FALSE)>>),
    Zip(<<Member(AppProfile, Old, TRUE), Member(PlugInProfile, New, FALSE)>>),
    Zip(<<Member(Below(0), New, TRUE)>>),
    Zip(<<Member(Below(1), Old, TRUE), Member(AppProfile, New, TRUE)>>) }

\* the archives tried below sub/
SubArchives ==
  { Zip(<<Other>>),
    Zip(<<Member(AppProfile, New, TRUE)>>),
    Zip(<<Member(AppProfile, New, FALSE)>>),
    Zip(<<Member(Below(0), New, TRUE)>>) }

A_PROFILE == << <<"a", ".mobileprovision">> >>
X_IPA == << <<"x", ".ipa">> >>
SUB == << <<"sub">> >>
Y_IPA == Join(SUB, <<"y", ".ipa">>)
NOTES == Join(SUB, <<"notes", ".txt">>)
STALE == Join(TEMP_DIR, <<"old", ".mobileprovision">>)

\* a.mobileprovision, x.ipa, sub/y.ipa and sub/notes.txt; with userPlist a file
\* a.mobileprovision.plist of the user's; with stale a temp_extracted directory
\* that an earlier run left.
Tree(pa, ax, ay, userPlist, stale) ==
  LET base == (A_PROFILE :> FileEntry(pa, USER)) @@ (X_IPA :> FileEntry(ax, USER))
              @@ (SUB :> DirEntry) @@ (Y_IPA :> FileEntry(ay, USER))
              @@ (NOTES :> FileEntry(NoData, USER))
      t1 == IF userPlist
            THEN Put(base, PlistPath(A_PROFILE), FileEntry(Profile("user", 0), USER))
            ELSE base
  IN  IF stale
      THEN Put(Put(t1, TEMP_DIR, DirEntry), STALE, FileEntry(Old, USER))
      ELSE t1

Init ==
  \E pa \in Profiles, ax \in Archives, ay \in SubArchives,
     before \in {"nothing", "userPlist", "stale"}, off \in UTCOffsets :
    /\ fs = Tree(pa, ax, ay, before = "userPlist", before = "stale")
    /\ fs0 = fs
    /\ toolPresent \in BOOLEAN
    /\ CURRENT_DATE = NowInstant + off
    /\ pc = "start"
    /\ stack = <<>>
    /\ files = <<>>
    /\ ipa_path = <<>>
    /\ extracted_paths = <<>>
    /\ out = <<>>
    /\ calls = <<>>
    /\ extractions = <<>>

----------------------------------------------------------------------------
\* main, process_directory

\* lines 99-105: empty the scratch directory and start the walk at the root.
Main_Start ==
  /\ pc = "start"
  /\ fs' = MakeDirs(IF Exists(fs, TEMP_DIR) THEN Rmtree(fs, TEMP_DIR) ELSE fs,
                    TEMP_DIR)
  /\ pc' = "walk"
  /\ stack' = <<ROOT_DIR>>
  /\ UNCHANGED <<fs0, toolPresent, CURRENT_DATE, files, ipa_path,
                 extracted_paths, out, calls, extractions>>

\* os.walk, top down: scan the next directory when it is reached; its files come
\* next, then its subdirectories, each in the order the scan returned them.
Walk_Scan ==
  /\ pc = "walk" /\ files = <<>> /\ stack # <<>>
  /\ LET top == Head(stack)
         here == IF IsDir(fs, top) THEN Children(fs, top) ELSE {}
     IN  \E fseq \in Perms({p \in here : IsFile(fs, p)}),
            dseq \in Perms({p \in here : IsDir(fs, p)}) :
           /\ files' = fseq
           /\ stack' = dseq \o Tail(stack)
  /\ UNCHANGED <<fs, fs0, toolPresent, CURRENT_DATE, pc, ipa_path,
                 extracted_paths, out, calls, extractions>>

Call(path, via, ipa, f, r) ==
  [path |-> path, via |-> via, ipa |-> ipa, result |-> r.result, e |-> r.e,
   input |-> IF IsFile(f, path) THEN f[path].data ELSE NoData,
   plistLeft |-> /\ IsFile(r.fs, PlistPath(path))
                 /\ r.fs[PlistPath(path)].by = SECURITY]

\* lines 88-90
Dispatch_Profile ==
  /\ pc = "walk" /\ files # <<>>
  /\ EndsWith(Basename(Head(files)), MOBILEPROVISION)
  /\ \E wrote \in BOOLEAN :
       LET r == check_expiry(fs, toolPresent, CURRENT_DATE, Head(files), wrote)
       IN  /\ fs' = r.fs
           /\ out' = out \o r.lines
           /\ calls' = Append(calls, Call(Head(files), "walk", <<>>, fs, r))
           /\ pc' = IF r.result = "raise" THEN "crashed" ELSE "walk"
  /\ files' = Tail(files)
  /\ UNCHANGED <<fs0, toolPresent, CURRENT_DATE, stack, ipa_path,
                 extracted_paths, extractions>>

Extraction(path, f, r) ==
  [ipa |-> path,
   zip |-> ZipOpen(f, path).exc = "none",
   members |-> ZipOpen(f, path).members,
   ret |-> r.ret, exc |-> r.exc, raised |-> r.raised, partial |-> r.partial,
   clobbered |-> r.clobbered,
   held |-> [i \in DOMAIN r.ret |->
               IF Exists(r.fs, r.ret[i]) THEN r.fs[r.ret[i]] ELSE DirEntry]]

\* lines 92-94
Dispatch_Ipa ==
  /\ pc = "walk" /\ files # <<>>
  /\ ~EndsWith(Basename(Head(files)), MOBILEPROVISION)
  /\ EndsWith(Basename(Head(files)), IPA)
  /\ LET r == extract_mobileprovision_from_ipa(fs, Head(files))
     IN  /\ fs' = r.fs
         /\ out' = out \o r.lines
         /\ extractions' = Append(extractions, Extraction(Head(files), fs, r))
         /\ extracted_paths' = r.ret
         /\ pc' = IF r.raised THEN "crashed"
                  ELSE IF r.ret = <<>> THEN "walk" ELSE "ipa_check"
  /\ ipa_path' = Head(files)
  /\ files' = Tail(files)
  /\ UNCHANGED <<fs0, toolPresent, CURRENT_DATE, stack, calls>>

\* lines 95-96
Check_Extracted ==
  /\ pc = "ipa_check" /\ extracted_paths # <<>>
  /\ \E wrote \in BOOLEAN :
       LET r == check_expiry(fs, toolPresent, CURRENT_DATE,
                             Head(extracted_paths), wrote)
       IN  /\ fs' = r.fs
           /\ out' = out \o r.lines
           /\ calls' = Append(calls,
                         Call(Head(extracted_paths), "ipa", ipa_path, fs, r))
           /\ pc' = IF r.result = "raise" THEN "crashed"
                    ELSE IF Tail(extracted_paths) = <<>> THEN "walk"
                    ELSE "ipa_check"
  /\ extracted_paths' = Tail(extracted_paths)
  /\ UNCHANGED <<fs0, toolPresent, CURRENT_DATE, stack, files, ipa_path,
                 extractions>>

\* a file that matches neither suffix
Dispatch_Ignore ==
  /\ pc = "walk" /\ files # <<>>
  /\ ~EndsWith(Basename(Head(files)), MOBILEPROVISION)
  /\ ~EndsWith(Basename(Head(files)), IPA)
  /\ files' = Tail(files)
  /\ UNCHANGED <<fs, fs0, toolPresent, CURRENT_DATE, pc, stack, ipa_path,
                 extracted_paths, out, calls, extractions>>

\* the walk is over
Walk_Done ==
  /\ pc = "walk" /\ files = <<>> /\ stack = <<>>
  /\ pc' = "cleanup"
  /\ UNCHANGED <<fs, fs0, toolPresent, CURRENT_DATE, stack, files, ipa_path,
                 extracted_paths, out, calls, extractions>>

\* lines 107-109
Main_Cleanup ==
  /\ pc = "cleanup"
  /\ fs' = IF Exists(fs, TEMP_DIR) THEN Rmtree(fs, TEMP_DIR) ELSE fs
  /\ pc' = "done"
  /\ UNCHANGED <<fs0, toolPresent, CURRENT_DATE, stack, files, ipa_path,
                 extracted_paths, out, calls, extractions>>

Next ==
  \/ Main_Start
  \/ Walk_Scan
  \/ Dispatch_Profile
  \/ Dispatch_Ipa
  \/ Check_Extracted
  \/ Dispatch_Ignore
  \/ Walk_Done
  \/ Main_Cleanup

Spec == Init /\ [][Next]_vars

----------------------------------------------------------------------------
\* Properties

Returned(c) == c.result # "raise"
LinesOf(path, msg) ==
  Cardinality({k \in DOMAIN out : out[k].path = path /\ out[k].msg = msg})
ChecksFor(ipa) == {k \in DOMAIN calls : calls[k].via = "ipa" /\ calls[k].ipa = ipa}
InScratch(p) == IsPrefix(TEMP_DIR, p)
\* the archive's for loop in process_directory is over
Finished(i) == i < Len(extractions) \/ pc \in {"walk", "cleanup", "done"}

\* C1 (as claimed): whatever goes wrong while a file is processed, no exception
\* leaves check_expiry or extract_mobileprovision_from_ipa.
C1_FailureIsolation ==
  /\ \A i \in DOMAIN calls : Returned(calls[i])
  /\ \A i \in DOMAIN extractions : ~extractions[i].raised
  /\ pc # "crashed"

\* C2 (as claimed): when the process has terminated, temp_extracted does not
\* exist, whatever per-file error occurred.
C2_ScratchGoneAtExit ==
  pc \in {"done", "crashed"} => ~Exists(fs, TEMP_DIR)

\* C3 (as claimed): when check_expiry returns, no decoded document
\* <file_path>.plist written by the utility exists, also after a failed decode.
C3_NoDecodedFileLeft ==
  \A i \in DOMAIN calls : Returned(calls[i]) => ~calls[i].plistLeft

\* C4 (as claimed): a decoded profile with expiration instant e is reported
\* EXPIRED exactly when e is strictly earlier than the instant the process
\* started at, and VALID otherwise.
C4_ExpiredIffBeforeNow ==
  \A i \in DOMAIN calls :
    calls[i].result \in {"EXPIRED", "VALID"} =>
      (calls[i].result = "EXPIRED" <=> calls[i].e < NowInstant)

Readable(x) == x.zip /\ \A k \in DOMAIN x.members : x.members[k].crcOk
Embedded(x) == SelectSeq(x.members, IsEmbedded)

\* C5 (as claimed): for a readable archive with N members ending in
\* embedded.mobileprovision the extraction returns N pairwise distinct paths,
\* the k-th holding the k-th such member, each checked exactly once; with N = 0
\* one 'No embedded.mobileprovision found' line and no check.
C5_OnePathPerMember ==
  \A i \in DOMAIN extractions :
    LET x == extractions[i] IN
    Readable(x) =>
      /\ Len(x.ret) = Len(Embedded(x))
      /\ \A j, k \in DOMAIN x.ret : j # k => x.ret[j] # x.ret[k]
      /\ \A k \in DOMAIN x.ret : x.held[k] = FileEntry(Embedded(x)[k].data, x.ipa)
      /\ Len(Embedded(x)) = 0 =>
           /\ LinesOf(x.ipa, "No embedded.mobileprovision found") = 1
           /\ ChecksFor(x.ipa) = {}
      /\ Finished(i) =>
           \A k \in DOMAIN x.ret :
             Cardinality({c \in ChecksFor(x.ipa) : calls[c].path = x.ret[k]}) = 1

\* C6 (as claimed): at any point of the run the scratch directory holds no
\* extracted profile whose check_expiry call has returned.
C6_ExtractedRemovedByCheck ==
  \A i \in DOMAIN calls :
    (calls[i].via = "ipa" /\ Returned(calls[i])) => ~Exists(fs, calls[i].path)

\* C6 (amended): check_expiry never removes the extracted profile it is called
\* on; every extracted path whose check has returned stays in the scratch
\* directory until main removes that directory at the end of the walk, and
\* then nothing of the scratch directory is left.
C6_ExtractedKeptUntilCleanup ==
  /\ pc # "done" =>
       \A i \in DOMAIN calls :
         (calls[i].via = "ipa" /\ Returned(calls[i])) => Exists(fs, calls[i].path)
  /\ pc = "done" => \A p \in DOMAIN fs : ~InScratch(p)

C6_Witness ==
  /\ pc = "walk"
  /\ \E i \in DOMAIN calls :
       /\ calls[i].via = "ipa" /\ calls[i].result \in {"EXPIRED", "VALID"}
       /\ IsFile(fs, calls[i].path)

\* C7: when the archive cannot be opened or an exception is raised while its
\* members are scanned, extracted or moved, the extraction does not raise,
\* returns the empty sequence and prints exactly one 'Error extracting' line
\* (and no 'No embedded.mobileprovision found' line), and process_directory
\* makes no check_expiry call for the archive.
C7_ExtractionErrorIsContained ==
  \A i \in DOMAIN extractions :
    LET x == extractions[i] IN
    x.exc # "none" =>
      /\ ~x.raised
      /\ pc = "crashed" => calls # <<>> /\ ~Returned(calls[Len(calls)])
      /\ x.ret = <<>>
      /\ LinesOf(x.ipa, "Error extracting") = 1
      /\ LinesOf(x.ipa, "No embedded.mobileprovision found") = 0
      /\ ChecksFor(x.ipa) = {}

\* an exception after an earlier member of the same archive was extracted
C7_Witness ==
  \E i \in DOMAIN extractions :
    /\ extractions[i].exc # "none"
    /\ extractions[i].partial # <<>>
    /\ IsFile(fs, extractions[i].partial[1])
    /\ ~extractions[i].raised
    /\ pc = "walk"

\* C8 (as claimed): no file that existed outside the scratch directory before
\* the run is modified, overwritten or deleted.
C8_InputsUntouched ==
  \A p \in DOMAIN fs0 : ~InScratch(p) => (p \in DOMAIN fs /\ fs[p] = fs0[p])

\* C9 (as claimed): no extraction or move writes to a scratch path occupied by
\* a file extracted from an earlier archive, and the paths returned for
\* different archives are distinct.
C9_NoCollisionAcrossArchives ==
  /\ \A i \in DOMAIN extractions : extractions[i].clobbered = {}
  /\ \A i, j \in DOMAIN extractions :
       i # j => \A a \in DOMAIN extractions[i].ret, b \in DOMAIN extractions[j].ret :
                  extractions[i].ret[a] # extractions[j].ret[b]

InitialProfiles ==
  {p \in DOMAIN fs0 :
     fs0[p].kind = "file" /\ EndsWith(Basename(p), MOBILEPROVISION) /\ ~InScratch(p)}

\* C10 (as claimed): the walk dispatches to check_expiry the .mobileprovision
\* files of the initial tree, each exactly once, and no file the run itself
\* created; every extracted profile is checked exactly once.
C10_EachProfileCheckedOnce ==
  /\ \A i \in DOMAIN calls : calls[i].via = "walk" => calls[i].path \in InitialProfiles
  /\ \A i, j \in DOMAIN calls :
       (i # j /\ calls[i].via = "walk" /\ calls[j].via = "walk")
         => calls[i].path # calls[j].path
  /\ pc = "done" =>
       /\ \A p \in InitialProfiles :
            \E i \in DOMAIN calls : calls[i].via = "walk" /\ calls[i].path = p
       /\ \A i \in DOMAIN extractions :
            Cardinality(ChecksFor(extractions[i].ipa)) = Len(extractions[i].ret)

====
